---- MODULE Spec2Model ----
(***************************************************************************)
(* Model of the Intel standard command set driver (flashwriter/src/intel.c)*)
(* A uint32_t used as an address or a count is the pair <<hi, lo>> of its   *)
(* 16 bit halves, with arithmetic modulo 2^32 (TLC's own integers stop at  *)
(* 2^31 - 1).  A uint32_t used as a status word is the set of its set bit  *)
(* positions, so                                                           *)
(* that (x & m) is the intersection and ((x & m) == m) a comparison of     *)
(* sets.  The flash device is the environment: every fl_read of a status   *)
(* word may return any word of DeviceWords.                                *)
(***************************************************************************)
EXTENDS Integers, Sequences, FiniteSets, TLC

\* ---------------------------------------------------------------- bounds
MaxBytes == 5          \* largest byte count passed to intel_prog_dev without wrap
MaxCmds == 2           \* commands the host posts to the flashwriter
MaxBlks == 4           \* blocks of the first region of the scenario geometry

\* ------------------------------------------------------- program constants
INTEL_BLOCK_ERASE == 32
INTEL_PROGRAM_WORD == 64
INTEL_CLEAR_STATUS == 80
INTEL_CHANGE_LOCK == 96
INTEL_READ_STATUS == 112
INTEL_READ_ARRAY == 255
INTEL_SET_LOCK_BIT == 1
INTEL_CLEAR_LOCK_BITS == 208
INTEL_CONFIRM == 208

INTEL_READY == 128
INTEL_ERASE_SUSPEND == 64
INTEL_ERASE_ERRORS == 32
INTEL_PROGRAM_ERRORS == 16
INTEL_VOLTAGE_ERRORS == 8
INTEL_PROGRAM_SUSPEND == 4
INTEL_LOCKBIT_ERRORS == 2

\* errors.h is not part of the sources; the values are the positions of the
\* messages in errmap[] of flashwriter.c
ERR_FLASH_SEQ == 7
ERR_FLASH_ERASE == 8
ERR_FLASH_PROG == 10
ERR_FLASH_LOCK == 11
ERR_FLASH_VOLTAGE == 12

INTEL_STATUS_READY == 0
INTEL_STATUS_CMDSEQ_ERR == ERR_FLASH_SEQ
INTEL_STATUS_ERASE_ERR == ERR_FLASH_ERASE
INTEL_STATUS_PROG_ERR == ERR_FLASH_PROG
INTEL_STATUS_VOLTAGE_ERR == ERR_FLASH_VOLTAGE
INTEL_STATUS_LOCK_ERR == ERR_FLASH_LOCK

\* flashwriter.c: host commands and status indicators (character codes)
CMD_NONE == 48
CMD_CFI_QRY == 67
CMD_INIT_DEV == 73
CMD_ERASE_DEV == 69
CMD_BLK_ERASE_DEV == 66
CMD_RST_DEV == 82
CMD_PROG_DEV == 80
CMD_BATCH == 98
CMD_EXIT == 88
CMD_REPLY == 114
STATUS_IDLE == 73
STATUS_BUSY == 66
STATUS_ERR == 69
STATUS_SUCCESS == 83
STATUS_EXIT == 88
MEMBUF_SIZ == 4
\* the command sets flashwriter_sm unlocks before an erase (CFI algorithm ids)
XFL_CMDSET_INTEL_EXTENDED == 1
XFL_CMDSET_INTEL_STANDARD == 3
XFL_CMDSET_INTEL_G18 == 512

VARIABLES
    addr_step, addr_shift,                       \* static uint8_t
    sr7flag, sr6flag, sr5flag, sr4flag,          \* static uint32_t status masks
    sr3flag, sr2flag, sr1flag,
    devinf,                                      \* static dev_info_t *: "NULL" or "devinfo"
    devinfo,                                     \* the dev_info_t the caller owns
    no_unlock,                                   \* build flag NO_INTEL_UNLOCK_BLOCKS
    stack,                                       \* call stack, innermost frame last
    ret,                                         \* value of the most recent return
    op,                                          \* the caller's current/last request
    hist,                                        \* nested calls completed in this request
    bus,                                         \* bus transactions of this request
    sm                                           \* flashwriter.c: mailboxes and flashwriter_sm

ctx == <<addr_step, addr_shift, sr7flag, sr6flag, sr5flag, sr4flag,
         sr3flag, sr2flag, sr1flag, devinf>>
vars == <<addr_step, addr_shift, sr7flag, sr6flag, sr5flag, sr4flag,
          sr3flag, sr2flag, sr1flag, devinf, devinfo, no_unlock,
          stack, ret, op, hist, bus, sm>>
\* the state of the command-set functions of intel.c
intel == <<ctx, devinfo, no_unlock, stack, ret, op, hist, bus>>

\* ------------------------------------------------------------- arithmetic
RECURSIVE Pow2(_)
Pow2(n) == IF n = 0 THEN 1 ELSE 2 * Pow2(n - 1)

H16 == Pow2(16)                              \* one half of a uint32_t counts modulo 2^16

\* the uint32_t of value n, for 0 <= n < 2^31
Lit(n) == <<n \div H16, n % H16>>
Zero32 == <<0, 0>>

\* uint32_t x << s and x >> s, for 0 <= s <= 15
Shl32(x, s) ==
    LET lo == x[2] * Pow2(s)
        hi == x[1] * Pow2(s) + (lo \div H16)
    IN <<hi % H16, lo % H16>>
Shr32(x, s) ==
    <<x[1] \div Pow2(s), (x[2] \div Pow2(s)) + (x[1] % Pow2(s)) * Pow2(16 - s)>>
\* uint32_t x + y and x - y
Add32(x, y) ==
    LET lo == x[2] + y[2]
        hi == x[1] + y[1] + (lo \div H16)
    IN <<hi % H16, lo % H16>>
Sub32(x, y) ==
    LET lo == x[2] - y[2]
        hi == x[1] - y[1] - (IF lo < 0 THEN 1 ELSE 0)
    IN <<(hi + H16) % H16, (lo + H16) % H16>>
\* uint32_t x % m, for 0 < m < 2^8
Mod32(x, m) == ((x[1] % m) * (H16 % m) + (x[2] % m)) % m
\* x <= y
Le32(x, y) == x[1] < y[1] \/ (x[1] = y[1] /\ x[2] <= y[2])

\* the set of bit positions set in the byte c
Bits(c) == {b \in 0..7 : (c \div Pow2(b)) % 2 = 1}
\* x & m on status words
And(x, m) == x \cap m

\* ------------------------------------------------------- device descriptions
Region(off, n, siz) == [offset |-> off, nblks |-> n, blksiz |-> siz]

\* 16 bit part on a 16 bit bus: the scenario geometry
DevX16 == [addr_step |-> 2, addr_shift |-> 1, part_mode |-> 2, interleave |-> 1,
           flgeo |-> [tot_regions |-> 1,
                      region |-> <<Region(Lit(0), MaxBlks, Lit(65536))>>]]
\* 8 bit part on an 8 bit bus, two regions (boot blocks, then a main block)
DevX8 == [addr_step |-> 1, addr_shift |-> 0, part_mode |-> 1, interleave |-> 1,
          flgeo |-> [tot_regions |-> 2,
                     region |-> <<Region(Lit(0), 2, Lit(8192)), Region(Lit(16384), 1, Lit(65536))>>]]
\* two 16 bit parts interleaved on a 32 bit bus, the last two blocks of the
\* address space (region offset 0xfffe0000)
DevX32 == [addr_step |-> 4, addr_shift |-> 2, part_mode |-> 4, interleave |-> 2,
           flgeo |-> [tot_regions |-> 1,
                      region |-> <<Region(<<65534, 0>>, 2, Lit(65536))>>]]
DevInfos == {DevX16, DevX8, DevX32}

\* flash.h is not part of the sources: the shift from a byte offset to a
\* block (command) address for a bus of `mode' bytes
BYTE_OFFSET_FACTOR(mode) == CASE mode = 1 -> 0 [] mode = 2 -> 1 [] OTHER -> 2

\* bits of one interleave lane
LaneWidth(d) == (8 * d.part_mode) \div d.interleave

\* fl_form_cmd is external: the command byte replicated in every lane
fl_form_cmd(d, c) ==
    {b + k * LaneWidth(d) : b \in Bits(c), k \in 0..(d.interleave - 1)}

\* the words a lane of the status register shows in the model
LanePatterns ==
    { {}, Bits(INTEL_READY) } \cup
    { Bits(INTEL_READY) \cup e :
        e \in { Bits(INTEL_ERASE_ERRORS), Bits(INTEL_PROGRAM_ERRORS),
                Bits(INTEL_ERASE_ERRORS) \cup Bits(INTEL_PROGRAM_ERRORS),
                Bits(INTEL_VOLTAGE_ERRORS), Bits(INTEL_PROGRAM_SUSPEND),
                Bits(INTEL_LOCKBIT_ERRORS), Bits(INTEL_ERASE_SUSPEND) } }

\* the words fl_read may return: every lane shows one of the patterns `pats'
Words(d, pats) ==
    { UNION { {b + k * LaneWidth(d) : b \in f[k]} : k \in 0..(d.interleave - 1) } :
        f \in [0..(d.interleave - 1) -> pats] }
DeviceWords == Words(devinfo, LanePatterns)

\* ------------------------------------------------------------ bus and stack
Cmd(a, c) == [k |-> "cmd", a |-> a, d |-> Lit(c)]       \* fl_cmdwrite (a, c)
Wr(a, v) == [k |-> "wr", a |-> a, d |-> v]         \* fl_write (a, v)
Rd(a) == [k |-> "rd", a |-> a, d |-> Zero32]            \* fl_read (a); a polling loop's
                                                   \* repeated reads are logged once
Delay == [k |-> "delay", a |-> Zero32, d |-> Zero32]         \* intel_status_delay ()

fl_cmdwrite(b, cmdaddr, cmddata) == Append(b, Cmd(cmdaddr, cmddata))
fl_write(b, addr, data) == Append(b, Wr(addr, data))
fl_read(b, addr) == Append(b, Rd(addr))
intel_status_delay(b) == Append(b, Delay)

\* mem_read (srcaddr): the unit of source memory at srcaddr, named by its address
mem_read(srcaddr) == srcaddr

Top == stack[Len(stack)]
Running(fn, pc) == Len(stack) > 0 /\ Top.fn = fn /\ Top.pc = pc
Idle == stack = <<>>
SetTop(f) == [stack EXCEPT ![Len(stack)] = f]
Pop == SubSeq(stack, 1, Len(stack) - 1)
Call(f) == Append(stack, f)
\* the caller's frame moves to pc and the callee's frame f is pushed
CallFrom(pc, f) == Append(SetTop([Top EXCEPT !.pc = pc]), f)

\* ------------------------------------------------------------- address macros
\* the conversion shifting by the address step instead of the address shift
BLKADDR_TO_ADDR_by_step(blkaddr) == Shl32(blkaddr, devinfo.addr_step)
BLKADDR_TO_ADDR(blkaddr) == Shl32(blkaddr, devinfo.addr_shift)
ADDR_TO_BLKADDR(addr) == Shr32(addr, devinfo.addr_shift)

\* the block addresses the loops of intel_rst_dev and intel_erase_dev visit
RECURSIVE RegionBlocks(_, _, _)
RegionBlocks(r, j, offset) ==
    IF j < r.nblks
    THEN <<Shr32(offset, BYTE_OFFSET_FACTOR(devinfo.part_mode))>>
         \o RegionBlocks(r, j + 1, Add32(offset, r.blksiz))
    ELSE <<>>
RECURSIVE GeoBlocks(_)
GeoBlocks(i) ==
    IF i < devinfo.flgeo.tot_regions
    THEN RegionBlocks(devinfo.flgeo.region[i + 1], 0, devinfo.flgeo.region[i + 1].offset)
         \o GeoBlocks(i + 1)
    ELSE <<>>
BlockIterator == GeoBlocks(0)
Range(s) == {s[n] : n \in 1..Len(s)}

\* --------------------------------------------------------- straight-line code
intel_clear_status(b) == fl_cmdwrite(b, Zero32, INTEL_CLEAR_STATUS)

\* intel_rst_blk with the clear-status command written at the block's address
intel_rst_blk_block_qualified(b, blkaddr) ==
    intel_status_delay(
      fl_cmdwrite(fl_cmdwrite(b, blkaddr, INTEL_CLEAR_STATUS), blkaddr, INTEL_READ_ARRAY))

\* intel_clear_status (); fl_cmdwrite (blkaddr, INTEL_READ_ARRAY); intel_status_delay ()
intel_rst_blk(b, blkaddr) ==
    intel_status_delay(fl_cmdwrite(intel_clear_status(b), blkaddr, INTEL_READ_ARRAY))

\* the bus side of intel_read_status; the word read is the device's answer
intel_read_status(b, blkaddr) ==
    fl_read(fl_cmdwrite(b, blkaddr, INTEL_READ_STATUS), BLKADDR_TO_ADDR(blkaddr))

\* intel_status_check with the erase-error test taken before the test of both
\* error bits
intel_status_check_erase_first(status) ==
    IF And(status, sr5flag) = sr5flag THEN INTEL_STATUS_ERASE_ERR
    ELSE IF And(status, sr4flag) = sr4flag THEN INTEL_STATUS_PROG_ERR
    ELSE IF And(status, sr3flag) = sr3flag THEN INTEL_STATUS_PROG_ERR
    ELSE IF And(status, sr2flag) = sr2flag THEN INTEL_STATUS_VOLTAGE_ERR
    ELSE IF And(status, sr1flag) = sr1flag THEN INTEL_STATUS_LOCK_ERR
    ELSE INTEL_STATUS_READY

\* intel_status_check with the voltage-error bit reported as a voltage error
\* and the program-suspend bit left out
intel_status_check_voltage_kind(status) ==
    IF And(status, sr5flag) = sr5flag
    THEN IF And(status, sr4flag) = sr4flag
         THEN INTEL_STATUS_CMDSEQ_ERR
         ELSE INTEL_STATUS_ERASE_ERR
    ELSE IF And(status, sr4flag) = sr4flag THEN INTEL_STATUS_PROG_ERR
    ELSE IF And(status, sr3flag) = sr3flag THEN INTEL_STATUS_VOLTAGE_ERR
    ELSE IF And(status, sr1flag) = sr1flag THEN INTEL_STATUS_LOCK_ERR
    ELSE INTEL_STATUS_READY

\* intel_status_check with the lockbit-error test taken before the
\* voltage-error test
intel_status_check_lock_first(status) ==
    IF And(status, sr5flag) = sr5flag
    THEN IF And(status, sr4flag) = sr4flag
         THEN INTEL_STATUS_CMDSEQ_ERR
         ELSE INTEL_STATUS_ERASE_ERR
    ELSE IF And(status, sr4flag) = sr4flag THEN INTEL_STATUS_PROG_ERR
    ELSE IF And(status, sr1flag) = sr1flag THEN INTEL_STATUS_LOCK_ERR
    ELSE IF And(status, sr3flag) = sr3flag THEN INTEL_STATUS_PROG_ERR
    ELSE IF And(status, sr2flag) = sr2flag THEN INTEL_STATUS_VOLTAGE_ERR
    ELSE INTEL_STATUS_READY

\* intel_status_check with the program-suspend test taken before the
\* program-error test
intel_status_check_suspend_first(status) ==
    IF And(status, sr5flag) = sr5flag
    THEN IF And(status, sr4flag) = sr4flag
         THEN INTEL_STATUS_CMDSEQ_ERR
         ELSE INTEL_STATUS_ERASE_ERR
    ELSE IF And(status, sr2flag) = sr2flag THEN INTEL_STATUS_VOLTAGE_ERR
    ELSE IF And(status, sr4flag) = sr4flag THEN INTEL_STATUS_PROG_ERR
    ELSE IF And(status, sr3flag) = sr3flag THEN INTEL_STATUS_PROG_ERR
    ELSE IF And(status, sr1flag) = sr1flag THEN INTEL_STATUS_LOCK_ERR
    ELSE INTEL_STATUS_READY

\* intel_status_check, given the word `status' intel_read_status returned
intel_status_check(status) ==
    IF And(status, sr5flag) = sr5flag
    THEN IF And(status, sr4flag) = sr4flag
         THEN INTEL_STATUS_CMDSEQ_ERR
         ELSE INTEL_STATUS_ERASE_ERR
    ELSE IF And(status, sr4flag) = sr4flag THEN INTEL_STATUS_PROG_ERR
    ELSE IF And(status, sr3flag) = sr3flag THEN INTEL_STATUS_PROG_ERR
    ELSE IF And(status, sr2flag) = sr2flag THEN INTEL_STATUS_VOLTAGE_ERR
    ELSE IF And(status, sr1flag) = sr1flag THEN INTEL_STATUS_LOCK_ERR
    ELSE INTEL_STATUS_READY

\* a polling loop that is left after its first read
PollReady_first_read(data) == TRUE

\* the polling loops testing the read word against the erase-suspend mask
PollReady_suspend_mask(data) == And(data, sr7flag) = sr6flag

\* the test that ends the polling loops: (data & sr7flag) == sr7flag
PollReady(data) == And(data, sr7flag) = sr7flag

\* a return: the frame is popped, the value is left in ret, and a call made
\* from inside another function is added to hist
Return(fn, blkaddr, value) ==
    /\ stack' = Pop
    /\ ret' = value
    /\ hist' = IF Len(stack) > 1
               THEN Append(hist, [fn |-> fn, blkaddr |-> blkaddr, status |-> value])
               ELSE hist

\* the caller issues a request: the logs of the previous request are dropped
Request(fn, args, frame) ==
    /\ Idle
    /\ devinf # "NULL"
    /\ op' = [fn |-> fn, a |-> args]
    /\ stack' = <<frame>>
    /\ hist' = <<>>
    /\ UNCHANGED <<ctx, devinfo, no_unlock, sm, ret>>

\* ------------------------------------------------------------ the caller's inputs
BlkArgs == Range(BlockIterator) \cup {Lit(2)}
ProgOffsets == {Lit(0), Lit(65534), <<65535, 65534>>}
SrcAddrs == {Lit(0)}

\* nbytes aligned to the address boundary, as intel_prog_dev does it
AlignCount(nbytes) ==
    IF Mod32(nbytes, addr_step) # 0
    THEN Add32(nbytes, Lit(addr_step - Mod32(nbytes, addr_step)))
    ELSE nbytes

\* byte counts: the small ones, and the largest uint32_t values whose
\* programming loop is short enough to be followed
ProgCounts ==
    {n \in {Lit(m) : m \in 0..MaxBytes}
            \cup {<<65535, 65533>>, <<65535, 65534>>, <<65535, 65535>>} :
        Le32(AlignCount(n), Lit(MaxBytes + 3))}

\* ----------------------------------------------------------------- Init
\* ------------------------------------------------- flashwriter.c: mailboxes
\* rcvmbox and sndmbox, the locals of flashwriter_sm, devinfo.CommandSet and
\* the transfer buffers; .data is zeroed at load. posted counts the commands
\* the host has posted, executed the host commands the switch has dispatched,
\* and calls lists the XFlash_* calls of the current iteration with their
\* results
SmStart ==
    [pc |-> "main",
     rcvmbox |-> [cmd |-> 0, param |-> <<0, 0, 0>>],
     sndmbox |-> [cmd |-> 0, status |-> 0, param0 |-> 0],
     cmd |-> 0, ret |-> 0, status |-> 0,
     CommandSet |-> 0,
     membuf |-> [i \in 1..MEMBUF_SIZ |-> 0],
     readbuf |-> [i \in 1..MEMBUF_SIZ |-> 0],
     posted |-> 0, executed |-> 0, calls |-> <<>>]

\* the commands of the host-to-writer message formats
HostCommands ==
    {CMD_NONE, CMD_CFI_QRY, CMD_INIT_DEV, CMD_RST_DEV, CMD_ERASE_DEV,
     CMD_BLK_ERASE_DEV, CMD_PROG_DEV, CMD_BATCH, CMD_EXIT}
\* the byte counts the host passes in param[1]
HostCounts == {0, MEMBUF_SIZ}
\* what an XFlash_* call returns (int): success, a failure, and a failure
\* whose low byte is zero
XFlashResults == {0, 1, 256}
\* the command set XFlash_Initialize finds
CommandSets ==
    {XFL_CMDSET_INTEL_EXTENDED, 2, XFL_CMDSET_INTEL_STANDARD, XFL_CMDSET_INTEL_G18}
\* the contents the host loads into membuf, and what XFlash_Read reads back
Buffers == {[i \in 1..MEMBUF_SIZ |-> 1], [i \in 1..MEMBUF_SIZ |-> IF i = 2 THEN 0 ELSE 1]}
\* uint8_t ret = <int>
U8(x) == x % 256

Init ==
    /\ devinfo \in DevInfos
    /\ no_unlock \in BOOLEAN
    /\ addr_step = 0 /\ addr_shift = 0
    /\ sr7flag = {} /\ sr6flag = {} /\ sr5flag = {} /\ sr4flag = {}
    /\ sr3flag = {} /\ sr2flag = {} /\ sr1flag = {}
    /\ devinf = "NULL"
    /\ stack = <<>>
    /\ ret = 0
    /\ op = [fn |-> "none", a |-> <<>>]
    /\ hist = <<>>
    /\ bus = <<>>
    /\ sm = SmStart

\* ------------------------------------------------- intel_init_dev_params
intel_init_dev_params ==
    /\ Idle
    /\ \E d \in DevInfos :
         /\ devinfo' = d
         /\ addr_step' = d.addr_step
         /\ addr_shift' = d.addr_shift
         /\ sr7flag' = fl_form_cmd(d, INTEL_READY)
         /\ sr6flag' = fl_form_cmd(d, INTEL_ERASE_SUSPEND)
         /\ sr5flag' = fl_form_cmd(d, INTEL_ERASE_ERRORS)
         /\ sr4flag' = fl_form_cmd(d, INTEL_PROGRAM_ERRORS)
         /\ sr3flag' = fl_form_cmd(d, INTEL_VOLTAGE_ERRORS)
         /\ sr2flag' = fl_form_cmd(d, INTEL_PROGRAM_SUSPEND)
         /\ sr1flag' = fl_form_cmd(d, INTEL_LOCKBIT_ERRORS)
    /\ devinf' = "devinfo"
    /\ op' = [fn |-> "intel_init_dev_params", a |-> <<>>]
    /\ hist' = <<>>
    /\ bus' = <<>>
    /\ UNCHANGED <<no_unlock, sm, stack, ret>>

\* ----------------------------------------------------------- intel_rst_blk
call_intel_rst_blk ==
    \E blkaddr \in BlkArgs :
      /\ Idle
      /\ devinf # "NULL"
      /\ op' = [fn |-> "intel_rst_blk", a |-> <<blkaddr>>]
      /\ bus' = intel_rst_blk(<<>>, blkaddr)
      /\ hist' = <<>>
      /\ UNCHANGED <<ctx, devinfo, no_unlock, sm, stack, ret>>

\* ----------------------------------------------------------- intel_rst_dev
call_intel_rst_dev ==
    /\ Request("intel_rst_dev", <<>>,
               [fn |-> "intel_rst_dev", pc |-> "regions", i |-> 0, j |-> 0, offset |-> Zero32])
    /\ bus' = <<>>

\* intel_rst_dev leaving the loop one region early
intel_rst_dev_regions_one_short ==
    /\ Running("intel_rst_dev", "regions")
    /\ IF Top.i + 1 < devinfo.flgeo.tot_regions
       THEN /\ stack' = SetTop([Top EXCEPT !.pc = "blocks", !.j = 0,
                                   !.offset = devinfo.flgeo.region[Top.i + 1].offset])
            /\ UNCHANGED <<ret, hist>>
       ELSE Return("intel_rst_dev", Zero32, ret)
    /\ UNCHANGED <<ctx, devinfo, no_unlock, sm, op, bus>>

\* for (i = 0; i < tot_regions; i++) { offset = region[i].offset; j = 0 ...
intel_rst_dev_regions ==
    /\ Running("intel_rst_dev", "regions")
    /\ IF Top.i < devinfo.flgeo.tot_regions
       THEN /\ stack' = SetTop([Top EXCEPT !.pc = "blocks", !.j = 0,
                                   !.offset = devinfo.flgeo.region[Top.i + 1].offset])
            /\ UNCHANGED <<ret, hist>>
       ELSE Return("intel_rst_dev", Zero32, ret)
    /\ UNCHANGED <<ctx, devinfo, no_unlock, sm, op, bus>>

\* intel_rst_dev advancing the region's offset in the geometry itself
intel_rst_dev_blocks_moving_region ==
    /\ Running("intel_rst_dev", "blocks")
    /\ LET r == devinfo.flgeo.region[Top.i + 1]
           blkaddr == Shr32(r.offset, BYTE_OFFSET_FACTOR(devinfo.part_mode))
       IN IF Top.j < r.nblks
          THEN /\ bus' = intel_rst_blk(bus, blkaddr)
               /\ devinfo' = [devinfo EXCEPT !.flgeo.region[Top.i + 1].offset =
                                                 Add32(r.offset, r.blksiz)]
               /\ stack' = SetTop([Top EXCEPT !.j = Top.j + 1])
          ELSE /\ bus' = bus
               /\ devinfo' = devinfo
               /\ stack' = SetTop([Top EXCEPT !.pc = "regions", !.i = Top.i + 1])
    /\ UNCHANGED <<ctx, no_unlock, sm, op, ret, hist>>

\* for (...; j < nblks; j++) { blkaddr = ...; intel_rst_blk; offset += blksiz }
intel_rst_dev_blocks ==
    /\ Running("intel_rst_dev", "blocks")
    /\ LET r == devinfo.flgeo.region[Top.i + 1]
           blkaddr == Shr32(Top.offset, BYTE_OFFSET_FACTOR(devinfo.part_mode))
       IN IF Top.j < r.nblks
          THEN /\ bus' = intel_rst_blk(bus, blkaddr)
               /\ stack' = SetTop([Top EXCEPT !.offset = Add32(Top.offset, r.blksiz),
                                              !.j = Top.j + 1])
          ELSE /\ bus' = bus
               /\ stack' = SetTop([Top EXCEPT !.pc = "regions", !.i = Top.i + 1])
    /\ UNCHANGED <<ctx, devinfo, no_unlock, sm, op, ret, hist>>

\* --------------------------------------------------------- intel_erase_dev
call_intel_erase_dev ==
    /\ Request("intel_erase_dev", <<>>,
               [fn |-> "intel_erase_dev", pc |-> "regions", i |-> 0, j |-> 0, offset |-> Zero32])
    /\ bus' = <<>>

intel_erase_dev_regions ==
    /\ Running("intel_erase_dev", "regions")
    /\ IF Top.i < devinfo.flgeo.tot_regions
       THEN /\ stack' = SetTop([Top EXCEPT !.pc = "blocks", !.j = 0,
                                   !.offset = devinfo.flgeo.region[Top.i + 1].offset])
            /\ UNCHANGED <<ret, hist>>
       ELSE Return("intel_erase_dev", Zero32, 0)
    /\ UNCHANGED <<ctx, devinfo, no_unlock, sm, op, bus>>

\* the frame of a call of intel_blk_erase_dev
BlkEraseFrame(blkaddr) ==
    [fn |-> "intel_blk_erase_dev", pc |-> "entry", blkaddr |-> blkaddr, data |-> {}]

\* for (...; j < nblks; j++) { blkaddr = ...; status = intel_blk_erase_dev (blkaddr)
intel_erase_dev_blocks ==
    /\ Running("intel_erase_dev", "blocks")
    /\ LET r == devinfo.flgeo.region[Top.i + 1]
           blkaddr == Shr32(Top.offset, BYTE_OFFSET_FACTOR(devinfo.part_mode))
       IN IF Top.j < r.nblks
          THEN stack' = CallFrom("erased", BlkEraseFrame(blkaddr))
          ELSE stack' = SetTop([Top EXCEPT !.pc = "regions", !.i = Top.i + 1])
    /\ UNCHANGED <<ctx, devinfo, no_unlock, sm, op, ret, hist, bus>>

\* intel_erase_dev going on to the next block whatever the block erase returned
intel_erase_dev_erased_no_stop ==
    /\ Running("intel_erase_dev", "erased")
    /\ LET r == devinfo.flgeo.region[Top.i + 1]
       IN /\ stack' = SetTop([Top EXCEPT !.pc = "blocks",
                                         !.offset = Add32(Top.offset, r.blksiz),
                                         !.j = Top.j + 1])
          /\ UNCHANGED <<ret, hist>>
    /\ UNCHANGED <<ctx, devinfo, no_unlock, sm, op, bus>>

\* if ((status = ...)) return status; offset += blksiz; }
intel_erase_dev_erased ==
    /\ Running("intel_erase_dev", "erased")
    /\ LET r == devinfo.flgeo.region[Top.i + 1]
       IN IF ret # 0
          THEN Return("intel_erase_dev", Zero32, ret)
          ELSE /\ stack' = SetTop([Top EXCEPT !.pc = "blocks",
                                              !.offset = Add32(Top.offset, r.blksiz),
                                              !.j = Top.j + 1])
               /\ UNCHANGED <<ret, hist>>
    /\ UNCHANGED <<ctx, devinfo, no_unlock, sm, op, bus>>

\* ------------------------------------------------------ intel_unlock_block
UnlockFrame(blkaddr) ==
    [fn |-> "intel_unlock_block", pc |-> "entry", blkaddr |-> blkaddr, status |-> {}]

call_intel_unlock_block ==
    \E blkaddr \in BlkArgs :
      /\ Request("intel_unlock_block", <<blkaddr>>, UnlockFrame(blkaddr))
      /\ bus' = <<>>

\* the two command writes, the delay and the first read of the do-while loop
intel_unlock_block_entry ==
    /\ Running("intel_unlock_block", "entry")
    /\ \E w \in DeviceWords :
         stack' = SetTop([Top EXCEPT !.pc = "poll", !.status = w])
    /\ bus' = fl_read(
                intel_status_delay(
                  fl_cmdwrite(fl_cmdwrite(bus, Top.blkaddr, INTEL_CHANGE_LOCK),
                              Top.blkaddr, INTEL_CLEAR_LOCK_BITS)),
                BLKADDR_TO_ADDR(Top.blkaddr))
    /\ UNCHANGED <<ctx, devinfo, no_unlock, sm, op, ret, hist>>

\* the polling loop of intel_unlock_block giving up with a timeout error
intel_unlock_block_poll_timeout ==
    /\ Running("intel_unlock_block", "poll")
    /\ ~PollReady(Top.status)
    /\ \/ /\ \E w \in DeviceWords : stack' = SetTop([Top EXCEPT !.status = w])
          /\ UNCHANGED <<ret, hist, bus>>
       \/ /\ Return("intel_unlock_block", Top.blkaddr, 6)
          /\ bus' = intel_rst_blk(bus, Top.blkaddr)
    /\ UNCHANGED <<ctx, devinfo, no_unlock, sm, op>>

\* while ((status & sr7flag) != sr7flag): read again
intel_unlock_block_poll ==
    /\ Running("intel_unlock_block", "poll")
    /\ ~PollReady(Top.status)
    /\ \E w \in DeviceWords : stack' = SetTop([Top EXCEPT !.status = w])
    /\ UNCHANGED <<ctx, devinfo, no_unlock, sm, op, ret, hist, bus>>

\* the loop has ended: delay, intel_status_check, intel_rst_blk, return
intel_unlock_block_done ==
    /\ Running("intel_unlock_block", "poll")
    /\ PollReady(Top.status)
    /\ \E w \in DeviceWords :
         Return("intel_unlock_block", Top.blkaddr, intel_status_check(w))
    /\ bus' = intel_rst_blk(intel_read_status(intel_status_delay(bus), Top.blkaddr),
                            Top.blkaddr)
    /\ UNCHANGED <<ctx, devinfo, no_unlock, sm, op>>

\* -------------------------------------------------------- intel_lock_block
LockFrame(blkaddr) ==
    [fn |-> "intel_lock_block", pc |-> "entry", blkaddr |-> blkaddr, status |-> {}]

call_intel_lock_block ==
    \E blkaddr \in BlkArgs :
      /\ Request("intel_lock_block", <<blkaddr>>, LockFrame(blkaddr))
      /\ bus' = <<>>

intel_lock_block_entry ==
    /\ Running("intel_lock_block", "entry")
    /\ \E w \in DeviceWords :
         stack' = SetTop([Top EXCEPT !.pc = "poll", !.status = w])
    /\ bus' = fl_read(
                intel_status_delay(
                  fl_cmdwrite(fl_cmdwrite(bus, Top.blkaddr, INTEL_CHANGE_LOCK),
                              Top.blkaddr, INTEL_SET_LOCK_BIT)),
                BLKADDR_TO_ADDR(Top.blkaddr))
    /\ UNCHANGED <<ctx, devinfo, no_unlock, sm, op, ret, hist>>

intel_lock_block_poll ==
    /\ Running("intel_lock_block", "poll")
    /\ ~PollReady(Top.status)
    /\ \E w \in DeviceWords : stack' = SetTop([Top EXCEPT !.status = w])
    /\ UNCHANGED <<ctx, devinfo, no_unlock, sm, op, ret, hist, bus>>

\* intel_lock_block without the delay between the polling loop and the decode
intel_lock_block_done_one_delay ==
    /\ Running("intel_lock_block", "poll")
    /\ PollReady(Top.status)
    /\ \E w \in DeviceWords :
         Return("intel_lock_block", Top.blkaddr, intel_status_check(w))
    /\ bus' = intel_rst_blk(intel_read_status(bus, Top.blkaddr), Top.blkaddr)
    /\ UNCHANGED <<ctx, devinfo, no_unlock, sm, op>>

\* intel_status_delay (); status = intel_status_check (...); intel_rst_blk; return
intel_lock_block_done ==
    /\ Running("intel_lock_block", "poll")
    /\ PollReady(Top.status)
    /\ \E w \in DeviceWords :
         Return("intel_lock_block", Top.blkaddr, intel_status_check(w))
    /\ bus' = intel_rst_blk(intel_read_status(intel_status_delay(bus), Top.blkaddr),
                            Top.blkaddr)
    /\ UNCHANGED <<ctx, devinfo, no_unlock, sm, op>>

\* ----------------------------------------------------- intel_blk_erase_dev
call_intel_blk_erase_dev ==
    \E blkaddr \in BlkArgs :
      /\ Request("intel_blk_erase_dev", <<blkaddr>>, BlkEraseFrame(blkaddr))
      /\ bus' = <<>>

\* the erase sequence polling at the block address, not at its byte address
EraseIssued_unshifted(b, blkaddr) ==
    fl_read(
      intel_status_delay(
        fl_cmdwrite(fl_cmdwrite(b, blkaddr, INTEL_BLOCK_ERASE), blkaddr, INTEL_CONFIRM)),
      blkaddr)

\* the erase command, the confirm byte, the delay and the first read
EraseIssued(b, blkaddr) ==
    fl_read(
      intel_status_delay(
        fl_cmdwrite(fl_cmdwrite(b, blkaddr, INTEL_BLOCK_ERASE), blkaddr, INTEL_CONFIRM)),
      BLKADDR_TO_ADDR(blkaddr))

\* #ifndef NO_INTEL_UNLOCK_BLOCKS: status = intel_unlock_block (blkaddr)
intel_blk_erase_dev_entry ==
    /\ Running("intel_blk_erase_dev", "entry")
    /\ IF no_unlock
       THEN /\ \E w \in DeviceWords :
                 stack' = SetTop([Top EXCEPT !.pc = "poll", !.data = w])
            /\ bus' = EraseIssued(bus, Top.blkaddr)
       ELSE /\ stack' = CallFrom("unlocked", UnlockFrame(Top.blkaddr))
            /\ bus' = bus
    /\ UNCHANGED <<ctx, devinfo, no_unlock, sm, op, ret, hist>>

\* intel_blk_erase_dev going on to the erase whatever the unlock returned
intel_blk_erase_dev_unlocked_unchecked ==
    /\ Running("intel_blk_erase_dev", "unlocked")
    /\ \E w \in DeviceWords :
         stack' = SetTop([Top EXCEPT !.pc = "poll", !.data = w])
    /\ bus' = EraseIssued(bus, Top.blkaddr)
    /\ UNCHANGED <<ret, hist>>
    /\ UNCHANGED <<ctx, devinfo, no_unlock, sm, op>>

\* if (status != INTEL_STATUS_READY) return status; else the erase is issued
intel_blk_erase_dev_unlocked ==
    /\ Running("intel_blk_erase_dev", "unlocked")
    /\ IF ret # INTEL_STATUS_READY
       THEN /\ Return("intel_blk_erase_dev", Top.blkaddr, ret)
            /\ bus' = bus
       ELSE /\ \E w \in DeviceWords :
                 stack' = SetTop([Top EXCEPT !.pc = "poll", !.data = w])
            /\ bus' = EraseIssued(bus, Top.blkaddr)
            /\ UNCHANGED <<ret, hist>>
    /\ UNCHANGED <<ctx, devinfo, no_unlock, sm, op>>

\* while ((data & sr7flag) != sr7flag) data = fl_read (...)
intel_blk_erase_dev_poll ==
    /\ Running("intel_blk_erase_dev", "poll")
    /\ ~PollReady(Top.data)
    /\ \E w \in DeviceWords : stack' = SetTop([Top EXCEPT !.data = w])
    /\ UNCHANGED <<ctx, devinfo, no_unlock, sm, op, ret, hist, bus>>

\* status = intel_status_check (blkaddr); intel_rst_blk (blkaddr); return status
intel_blk_erase_dev_done ==
    /\ Running("intel_blk_erase_dev", "poll")
    /\ PollReady(Top.data)
    /\ \E w \in DeviceWords :
         Return("intel_blk_erase_dev", Top.blkaddr, intel_status_check(w))
    /\ bus' = intel_rst_blk(intel_read_status(bus, Top.blkaddr), Top.blkaddr)
    /\ UNCHANGED <<ctx, devinfo, no_unlock, sm, op>>

\* ---------------------------------------------------------- intel_prog_dev
call_intel_prog_dev ==
    /\ devinf # "NULL"
    /\ \E offset \in ProgOffsets, srcaddr \in SrcAddrs, nbytes \in ProgCounts :
      /\ Request("intel_prog_dev", <<offset, srcaddr, nbytes>>,
                 [fn |-> "intel_prog_dev", pc |-> "entry", offset |-> offset,
                  srcaddr |-> srcaddr, nbytes |-> nbytes, data |-> {}])
      /\ bus' = <<>>

\* intel_prog_dev without the reset of the target block
intel_prog_dev_entry_no_reset ==
    /\ Running("intel_prog_dev", "entry")
    /\ bus' = bus
    /\ stack' = SetTop([Top EXCEPT !.pc = "loop", !.nbytes = AlignCount(Top.nbytes)])
    /\ UNCHANGED <<ctx, devinfo, no_unlock, sm, op, ret, hist>>

\* intel_rst_blk (ADDR_TO_BLKADDR (offset)); nbytes aligned to addr_step
intel_prog_dev_entry ==
    /\ Running("intel_prog_dev", "entry")
    /\ bus' = intel_rst_blk(bus, ADDR_TO_BLKADDR(Top.offset))
    /\ stack' = SetTop([Top EXCEPT !.pc = "loop", !.nbytes = AlignCount(Top.nbytes)])
    /\ UNCHANGED <<ctx, devinfo, no_unlock, sm, op, ret, hist>>

\* while (nbytes) { mem_read, program-word command, data write, delay, first read
intel_prog_dev_loop ==
    /\ Running("intel_prog_dev", "loop")
    /\ IF Top.nbytes # Zero32
       THEN /\ \E w \in DeviceWords :
                 stack' = SetTop([Top EXCEPT !.pc = "poll", !.data = w])
            /\ bus' = fl_read(
                        intel_status_delay(
                          fl_write(fl_cmdwrite(bus, Shr32(Top.offset, addr_shift),
                                               INTEL_PROGRAM_WORD),
                                   Top.offset, mem_read(Top.srcaddr))),
                        Top.offset)
            /\ UNCHANGED <<ret, hist>>
       ELSE /\ Return("intel_prog_dev", Zero32, 0)
            /\ bus' = bus
    /\ UNCHANGED <<ctx, devinfo, no_unlock, sm, op>>

intel_prog_dev_poll ==
    /\ Running("intel_prog_dev", "poll")
    /\ ~PollReady(Top.data)
    /\ \E w \in DeviceWords : stack' = SetTop([Top EXCEPT !.data = w])
    /\ UNCHANGED <<ctx, devinfo, no_unlock, sm, op, ret, hist, bus>>

\* intel_prog_dev returning the error of a unit without the reset of its block
intel_prog_dev_checked_no_reset ==
    /\ Running("intel_prog_dev", "poll")
    /\ PollReady(Top.data)
    /\ \E w \in DeviceWords :
         LET status == intel_status_check(w)
             checked == intel_read_status(bus, ADDR_TO_BLKADDR(Top.offset))
         IN IF status # 0
            THEN /\ bus' = checked
                 /\ Return("intel_prog_dev", Zero32, status)
            ELSE /\ bus' = checked
                 /\ stack' = SetTop([Top EXCEPT !.pc = "loop",
                                        !.offset = Add32(Top.offset, Lit(addr_step)),
                                        !.nbytes = Sub32(Top.nbytes, Lit(addr_step)),
                                        !.srcaddr = Add32(Top.srcaddr, Lit(addr_step))])
                 /\ UNCHANGED <<ret, hist>>
    /\ UNCHANGED <<ctx, devinfo, no_unlock, sm, op>>

\* if ((status = intel_status_check (...))) { intel_rst_blk; return status; }
\* offset += addr_step; nbytes -= addr_step; srcaddr += addr_step
intel_prog_dev_checked ==
    /\ Running("intel_prog_dev", "poll")
    /\ PollReady(Top.data)
    /\ \E w \in DeviceWords :
         LET status == intel_status_check(w)
             checked == intel_read_status(bus, ADDR_TO_BLKADDR(Top.offset))
         IN IF status # 0
            THEN /\ bus' = intel_rst_blk(checked, ADDR_TO_BLKADDR(Top.offset))
                 /\ Return("intel_prog_dev", Zero32, status)
            ELSE /\ bus' = checked
                 /\ stack' = SetTop([Top EXCEPT !.pc = "loop",
                                        !.offset = Add32(Top.offset, Lit(addr_step)),
                                        !.nbytes = Sub32(Top.nbytes, Lit(addr_step)),
                                        !.srcaddr = Add32(Top.srcaddr, Lit(addr_step))])
                 /\ UNCHANGED <<ret, hist>>
    /\ UNCHANGED <<ctx, devinfo, no_unlock, sm, op>>

\* ------------------------- intel_status_check, intel_read_status, intel_clear_status
\* every word whose lanes show any combination of the seven status bits
AllLanePatterns == SUBSET (1..7)
AllWords == Words(devinfo, AllLanePatterns)

\* a call of intel_status_check; the device answers the read with a word of
\* `words', which is kept with the request
status_check_on(words) ==
    /\ Idle
    /\ devinf # "NULL"
    /\ \E blkaddr \in BlkArgs, w \in words :
         /\ op' = [fn |-> "intel_status_check", a |-> <<blkaddr, w>>]
         /\ ret' = intel_status_check(w)
         /\ bus' = intel_read_status(<<>>, blkaddr)
    /\ hist' = <<>>
    /\ UNCHANGED <<ctx, devinfo, no_unlock, sm, stack>>

call_intel_status_check == status_check_on(DeviceWords)

call_intel_read_status ==
    /\ Idle
    /\ devinf # "NULL"
    /\ \E blkaddr \in BlkArgs, w \in DeviceWords :
         /\ op' = [fn |-> "intel_read_status", a |-> <<blkaddr, w>>]
         /\ bus' = intel_read_status(<<>>, blkaddr)
    /\ hist' = <<>>
    /\ UNCHANGED <<ctx, devinfo, no_unlock, sm, stack, ret>>

call_intel_clear_status ==
    /\ Idle
    /\ devinf # "NULL"
    /\ op' = [fn |-> "intel_clear_status", a |-> <<>>]
    /\ bus' = intel_clear_status(<<>>)
    /\ hist' = <<>>
    /\ UNCHANGED <<ctx, devinfo, no_unlock, sm, stack, ret>>

\* ----------------------------------------------------------------- Next
Next ==
    \/ intel_init_dev_params
    \/ call_intel_status_check
    \/ call_intel_read_status
    \/ call_intel_clear_status
    \/ call_intel_rst_blk
    \/ call_intel_rst_dev
    \/ intel_rst_dev_regions
    \/ intel_rst_dev_blocks
    \/ call_intel_erase_dev
    \/ intel_erase_dev_regions
    \/ intel_erase_dev_blocks
    \/ intel_erase_dev_erased
    \/ call_intel_unlock_block
    \/ intel_unlock_block_entry
    \/ intel_unlock_block_poll
    \/ intel_unlock_block_done
    \/ call_intel_lock_block
    \/ intel_lock_block_entry
    \/ intel_lock_block_poll
    \/ intel_lock_block_done
    \/ call_intel_blk_erase_dev
    \/ intel_blk_erase_dev_entry
    \/ intel_blk_erase_dev_unlocked
    \/ intel_blk_erase_dev_poll
    \/ intel_blk_erase_dev_done
    \/ call_intel_prog_dev
    \/ intel_prog_dev_entry
    \/ intel_prog_dev_loop
    \/ intel_prog_dev_poll
    \/ intel_prog_dev_checked

Spec == Init /\ [][Next]_vars

\* a step of a running operation other than a read of a polling loop
Progress ==
    \/ intel_rst_dev_regions
    \/ intel_rst_dev_blocks
    \/ intel_erase_dev_regions
    \/ intel_erase_dev_blocks
    \/ intel_erase_dev_erased
    \/ intel_unlock_block_entry
    \/ intel_unlock_block_done
    \/ intel_lock_block_entry
    \/ intel_lock_block_done
    \/ intel_blk_erase_dev_entry
    \/ intel_blk_erase_dev_unlocked
    \/ intel_blk_erase_dev_done
    \/ intel_prog_dev_entry
    \/ intel_prog_dev_loop
    \/ intel_prog_dev_checked

\* a read of a polling loop that the device answers with the ready bit set in
\* every lane
ReadyRead ==
    /\ \/ intel_unlock_block_poll
       \/ intel_lock_block_poll
       \/ intel_blk_erase_dev_poll
       \/ intel_prog_dev_poll
    /\ LET f == stack'[Len(stack')]
       IN fl_form_cmd(devinfo, INTEL_READY) \subseteq
            (IF f.fn \in {"intel_lock_block", "intel_unlock_block"} THEN f.status ELSE f.data)

\* the caller makes one request after the initializer
OneOperation == Idle /\ op.fn \in {"none", "intel_init_dev_params"}

\* the steps of Next, with one request in a behaviour
NextLive ==
    \/ OneOperation /\ intel_init_dev_params
    \/ OneOperation /\ call_intel_status_check
    \/ OneOperation /\ call_intel_read_status
    \/ OneOperation /\ call_intel_clear_status
    \/ OneOperation /\ call_intel_rst_blk
    \/ OneOperation /\ call_intel_rst_dev
    \/ intel_rst_dev_regions
    \/ intel_rst_dev_blocks
    \/ OneOperation /\ call_intel_erase_dev
    \/ intel_erase_dev_regions
    \/ intel_erase_dev_blocks
    \/ intel_erase_dev_erased
    \/ OneOperation /\ call_intel_unlock_block
    \/ intel_unlock_block_entry
    \/ intel_unlock_block_poll
    \/ intel_unlock_block_done
    \/ OneOperation /\ call_intel_lock_block
    \/ intel_lock_block_entry
    \/ intel_lock_block_poll
    \/ intel_lock_block_done
    \/ OneOperation /\ call_intel_blk_erase_dev
    \/ intel_blk_erase_dev_entry
    \/ intel_blk_erase_dev_unlocked
    \/ intel_blk_erase_dev_poll
    \/ intel_blk_erase_dev_done
    \/ OneOperation /\ call_intel_prog_dev
    \/ intel_prog_dev_entry
    \/ intel_prog_dev_loop
    \/ intel_prog_dev_poll
    \/ intel_prog_dev_checked

\* the processor keeps running, and a device that is polled again and again
\* reports ready at last
SpecLive == Init /\ [][NextLive]_vars /\ WF_vars(Progress) /\ WF_vars(ReadyRead)

\* the decoder alone, called once after the initializer on any status word of
\* the configured bus
decode_any_word == op.fn = "intel_init_dev_params" /\ status_check_on(AllWords)
NextDecode == intel_init_dev_params \/ decode_any_word
SpecDecode == Init /\ [][NextDecode]_vars

\* ------------------------------------------- flashwriter.c: flashwriter_sm
put_writer_status(m, st) == [m EXCEPT !.sndmbox.status = st]
put_writer_cmd(m, c) == [m EXCEPT !.sndmbox.cmd = c]
put_writer_param0(m, val) == [m EXCEPT !.sndmbox.param0 = val]
\* put_writer_status (STATUS_ERR); put_writer_param (ERR_CODE_PARAM, ret)
put_error(m, r) == put_writer_param0(put_writer_status([m EXCEPT !.ret = r], STATUS_ERR), r)
\* the switch is left: the loop goes on behind it
EndCase(m) ==
    [m EXCEPT !.pc = "tail", !.cmd = sm.rcvmbox.cmd,
              !.executed = IF sm.rcvmbox.cmd \in HostCommands \ {CMD_NONE}
                           THEN @ + 1 ELSE @]
\* ret = XFlash_...: the call returned x
Called(m, fn, x) == [m EXCEPT !.calls = Append(@, [fn |-> fn, r |-> x]), !.ret = U8(x)]
\* the next iteration starts
Again(m) == [m EXCEPT !.pc = "fetch", !.calls = <<>>]
Fetch(c) == sm.pc = "fetch" /\ sm.rcvmbox.cmd = c
IsIntel(cs) ==
    cs \in {XFL_CMDSET_INTEL_STANDARD, XFL_CMDSET_INTEL_EXTENDED, XFL_CMDSET_INTEL_G18}

\* the host, while the processor is halted (before main, or at the breakpoint
\* on xmd_callback), fills membuf and posts a command
host_post ==
    /\ sm.pc \in {"main", "callback"}
    /\ sm.posted < MaxCmds
    /\ \E c \in HostCommands \ {CMD_NONE}, n \in HostCounts, b \in Buffers :
         sm' = [sm EXCEPT !.rcvmbox = [cmd |-> c, param |-> <<0, n, 0>>],
                          !.membuf = b,
                          !.posted = @ + 1]
    /\ UNCHANGED intel

\* main: clr_writer_cmd (); clr_writer_status (); flashwriter_sm ()
main ==
    /\ sm.pc = "main"
    /\ sm' = [put_writer_status(put_writer_cmd(sm, CMD_NONE), STATUS_IDLE)
                EXCEPT !.pc = "fetch"]
    /\ UNCHANGED intel

sm_CMD_CFI_QRY ==
    /\ Fetch(CMD_CFI_QRY)
    /\ \E x \in XFlashResults, cs \in CommandSets :
         LET r == U8(x)
             m == Called(sm, "XFlash_Initialize", x)
         IN sm' = IF r # 0
                  THEN EndCase(put_error(m, r))
                  ELSE EndCase(put_writer_status(
                                 put_writer_param0(
                                   put_writer_cmd([m EXCEPT !.CommandSet = cs], CMD_REPLY),
                                   cs),
                                 STATUS_SUCCESS))
    /\ UNCHANGED intel

sm_CMD_INIT_DEV ==
    /\ Fetch(CMD_INIT_DEV)
    /\ sm' = EndCase(put_writer_status(put_writer_cmd(sm, CMD_REPLY), STATUS_SUCCESS))
    /\ UNCHANGED intel

sm_CMD_RST_DEV ==
    /\ Fetch(CMD_RST_DEV)
    /\ \E x \in XFlashResults :
         LET r == U8(x)
             m == Called(sm, "XFlash_Reset", x)
         IN sm' = IF r # 0
                  THEN EndCase(put_error(m, r))
                  ELSE EndCase(put_writer_status(m, STATUS_SUCCESS))
    /\ UNCHANGED intel

\* CMD_ERASE_DEV and CMD_BLK_ERASE_DEV: XFlash_Unlock for the Intel command
\* sets, then XFlash_Erase
EraseCase ==
    \E u \in XFlashResults, e \in XFlashResults :
       LET unlocked == Called(sm, "XFlash_Unlock", u)
           erased == Called(IF IsIntel(sm.CommandSet) THEN unlocked ELSE sm,
                            "XFlash_Erase", e)
       IN sm' = IF IsIntel(sm.CommandSet) /\ U8(u) # 0
                THEN EndCase(put_error(unlocked, U8(u)))
                ELSE IF U8(e) # 0
                THEN EndCase(put_error(erased, U8(e)))
                ELSE EndCase(put_writer_status(erased, STATUS_SUCCESS))

sm_CMD_ERASE_DEV ==
    /\ Fetch(CMD_ERASE_DEV)
    /\ EraseCase
    /\ UNCHANGED intel

sm_CMD_BLK_ERASE_DEV ==
    /\ Fetch(CMD_BLK_ERASE_DEV)
    /\ EraseCase
    /\ UNCHANGED intel

\* XFlash_Write, readbuf zeroed, XFlash_Read, the compare loop (its break
\* leaves the for loop only), put_writer_status (STATUS_SUCCESS)
sm_CMD_PROG_DEV ==
    /\ Fetch(CMD_PROG_DEV)
    /\ \E w \in XFlashResults, r \in XFlashResults, back \in Buffers :
         LET nbytes == sm.rcvmbox.param[2]
             zeroed == [i \in 1..MEMBUF_SIZ |-> IF i <= nbytes THEN 0 ELSE sm.readbuf[i]]
             read == [i \in 1..MEMBUF_SIZ |-> IF i <= nbytes THEN back[i] ELSE zeroed[i]]
             differ == \E i \in 1..nbytes : sm.membuf[i] # read[i]
             written == Called(sm, "XFlash_Write", w)
             readback == Called(written, "XFlash_Read", r)
             compared == IF differ
                         THEN put_error([readback EXCEPT !.readbuf = read], U8(r))
                         ELSE [readback EXCEPT !.readbuf = read]
         IN sm' = IF U8(w) # 0
                  THEN EndCase(put_error(written, U8(w)))
                  ELSE IF U8(r) # 0
                  THEN EndCase(put_error([readback EXCEPT !.readbuf = zeroed], U8(r)))
                  ELSE EndCase(put_writer_status(compared, STATUS_SUCCESS))
    /\ UNCHANGED intel

sm_CMD_BATCH ==
    /\ Fetch(CMD_BATCH)
    /\ \E x \in XFlashResults :
         LET r == U8(x)
             m == Called(sm, "XFlash_Write", x)
         IN sm' = IF r # 0
                  THEN EndCase(put_error(m, r))
                  ELSE EndCase(put_writer_status(m, STATUS_SUCCESS))
    /\ UNCHANGED intel

\* case CMD_EXIT falls through into case CMD_NONE
sm_CMD_EXIT ==
    /\ Fetch(CMD_EXIT)
    /\ sm' = EndCase(put_writer_status(put_writer_status(sm, STATUS_EXIT), STATUS_IDLE))
    /\ UNCHANGED intel

sm_CMD_NONE ==
    /\ Fetch(CMD_NONE)
    /\ sm' = EndCase(put_writer_status(sm, STATUS_IDLE))
    /\ UNCHANGED intel

\* no case label matches cmd
sm_no_case ==
    /\ sm.pc = "fetch"
    /\ sm.rcvmbox.cmd \notin HostCommands
    /\ sm' = EndCase(sm)
    /\ UNCHANGED intel

\* the loop's tail without clr_host_cmd ()
sm_tail_host_cmd_kept ==
    /\ sm.pc = "tail"
    /\ LET m == [sm EXCEPT !.status = sm.sndmbox.status]
       IN sm' = IF m.status = STATUS_ERR
                THEN Again(put_writer_status(put_writer_cmd(m, CMD_NONE), STATUS_IDLE))
                ELSE [m EXCEPT !.pc = "callback"]
    /\ UNCHANGED intel

\* clr_host_cmd (); status = get_writer_status ();
\* if (status == STATUS_ERR) { DPRINTF; DPRINTF; } else xmd_callback ();
\* and, when the callback is not called, clr_writer_cmd (); clr_writer_status ()
sm_tail ==
    /\ sm.pc = "tail"
    /\ LET m == [sm EXCEPT !.rcvmbox.cmd = CMD_NONE, !.status = sm.sndmbox.status]
       IN sm' = IF m.status = STATUS_ERR
                THEN Again(put_writer_status(put_writer_cmd(m, CMD_NONE), STATUS_IDLE))
                ELSE [m EXCEPT !.pc = "callback"]
    /\ UNCHANGED intel

\* xmd_callback () returns (the host resumes the processor);
\* clr_writer_cmd (); clr_writer_status ()
xmd_callback ==
    /\ sm.pc = "callback"
    /\ sm' = Again(put_writer_status(put_writer_cmd(sm, CMD_NONE), STATUS_IDLE))
    /\ UNCHANGED intel

NextSM ==
    \/ host_post
    \/ main
    \/ sm_CMD_CFI_QRY
    \/ sm_CMD_INIT_DEV
    \/ sm_CMD_RST_DEV
    \/ sm_CMD_ERASE_DEV
    \/ sm_CMD_BLK_ERASE_DEV
    \/ sm_CMD_PROG_DEV
    \/ sm_CMD_BATCH
    \/ sm_CMD_EXIT
    \/ sm_CMD_NONE
    \/ sm_no_case
    \/ sm_tail
    \/ xmd_callback

SpecSM == Init /\ [][NextSM]_vars

\* ---------------------------------------------------------------- claims
Cmds(b) == SelectSeq(b, LAMBDA e : e.k = "cmd")
IsCmd(e, c) == e.k = "cmd" /\ e.d = Lit(c)
CountCmd(b, c) == Len(SelectSeq(b, LAMBDA e : IsCmd(e, c)))
\* the mask of status bit c on the configured bus, and its test on a word
MaskOf(c) == fl_form_cmd(devinfo, c)
MaskSet(w, c) == MaskOf(c) \subseteq w
\* the request fn has returned to the caller
Returned(fn) == Idle /\ op.fn = fn

EngineOps ==
    {"intel_blk_erase_dev", "intel_prog_dev", "intel_lock_block", "intel_unlock_block"}

\* C1: every engine-level operation (erase_block, program, lock_block,
\* unlock_block) has, on every return path, clear-status followed by
\* read-array at the affected block as the last commands it issued.
C1_ResetOnEveryReturn ==
    (Idle /\ op.fn \in EngineOps) =>
        LET c == Cmds(bus)
        IN /\ Len(c) >= 2
           /\ c[Len(c) - 1] = Cmd(Zero32, INTEL_CLEAR_STATUS)
           /\ IsCmd(c[Len(c)], INTEL_READ_ARRAY)
           /\ (op.fn # "intel_prog_dev" => c[Len(c)].a = op.a[1])
           /\ bus[Len(bus)] = Delay

\* the same without the successful returns of intel_prog_dev that wrote a unit
C1_ResetExceptAfterProgrammedUnits ==
    (Idle /\ op.fn \in EngineOps
          /\ ~(op.fn = "intel_prog_dev" /\ ret = 0
               /\ CountCmd(bus, INTEL_PROGRAM_WORD) > 0)) =>
        LET c == Cmds(bus)
        IN /\ Len(c) >= 2
           /\ c[Len(c) - 1] = Cmd(Zero32, INTEL_CLEAR_STATUS)
           /\ IsCmd(c[Len(c)], INTEL_READ_ARRAY)
           /\ (op.fn # "intel_prog_dev" => c[Len(c)].a = op.a[1])

FiveKinds ==
    {INTEL_STATUS_READY, INTEL_STATUS_CMDSEQ_ERR, INTEL_STATUS_ERASE_ERR,
     INTEL_STATUS_PROG_ERR, INTEL_STATUS_LOCK_ERR}
SixKinds == FiveKinds \cup {INTEL_STATUS_VOLTAGE_ERR}

\* C2: decode (intel_status_check) produces one result kind for every status
\* word, and that kind is SequenceError if and only if the erase-error mask and
\* the program-error mask are both set in the word; the erase-error mask alone
\* gives EraseError.
C2_SequenceErrorIffBothMasks ==
    Returned("intel_status_check") =>
        LET w == op.a[2]
            erase == MaskSet(w, INTEL_ERASE_ERRORS)
            prog == MaskSet(w, INTEL_PROGRAM_ERRORS)
        IN /\ ret \in SixKinds
           /\ (ret = INTEL_STATUS_CMDSEQ_ERR) <=> (erase /\ prog)
           /\ (erase /\ ~prog) => ret = INTEL_STATUS_ERASE_ERR
           /\ (erase /\ prog) => ret \notin {INTEL_STATUS_ERASE_ERR, INTEL_STATUS_PROG_ERR}

\* both error masks set in every lane of a two lane bus, decoded as SequenceError
C2_Witness ==
    /\ Returned("intel_status_check")
    /\ devinfo.interleave = 2
    /\ MaskSet(op.a[2], INTEL_ERASE_ERRORS)
    /\ MaskSet(op.a[2], INTEL_PROGRAM_ERRORS)
    /\ ret = INTEL_STATUS_CMDSEQ_ERR

\* the operations that return a result
ResultOps ==
    {"intel_erase_dev", "intel_blk_erase_dev", "intel_prog_dev",
     "intel_lock_block", "intel_unlock_block"}

BlockErases == SelectSeq(hist, LAMBDA h : h.fn = "intel_blk_erase_dev")

\* C4: erase_device is erase_block on the addresses of the Block Iterator, in
\* iteration order, stopped at the first non-Ready result, which it returns;
\* it returns Ready only if every block was erased Ready, and no block after
\* the failing one receives a command.
C4_EraseDeviceIsBlockwise ==
    Returned("intel_erase_dev") =>
        LET k == Len(BlockErases)
            N == Len(BlockIterator)
        IN /\ k <= N
           /\ \A n \in 1..k : BlockErases[n].blkaddr = BlockIterator[n]
           /\ \A n \in 1..(k - 1) : BlockErases[n].status = INTEL_STATUS_READY
           /\ IF ret = INTEL_STATUS_READY
              THEN k = N /\ \A n \in 1..k : BlockErases[n].status = INTEL_STATUS_READY
              ELSE k >= 1 /\ BlockErases[k].status = ret
           /\ \A n \in 1..Len(bus) :
                bus[n].k = "cmd" =>
                    \/ bus[n] = Cmd(Zero32, INTEL_CLEAR_STATUS)
                    \/ \E m \in 1..k : bus[n].a = BlockIterator[m]
           /\ \A m \in 1..k :
                \E n \in 1..Len(bus) : bus[n].k = "cmd" /\ bus[n].a = BlockIterator[m]
                                       /\ bus[n].d # Lit(INTEL_CLEAR_STATUS)

\* a whole-device erase stopped by a failure at a block that is neither the
\* first nor the last
C4_Witness ==
    /\ Returned("intel_erase_dev")
    /\ ret # INTEL_STATUS_READY
    /\ Len(BlockErases) >= 2
    /\ Len(BlockErases) < Len(BlockIterator)

\* k = ceil (n / step), for a uint32_t n and a small k
CeilIs(n, step, k) == n[1] = 0 /\ k * step >= n[2] /\ (k - 1) * step < n[2]

\* the units a program request has written: the program-word commands and
\* the data writes
ProgCmds == SelectSeq(bus, LAMBDA e : IsCmd(e, INTEL_PROGRAM_WORD))
ProgWrites == SelectSeq(bus, LAMBDA e : e.k = "wr")

\* C5: program(offset, buf, n) with no failing unit issues exactly
\* ceil(n/addr_step) program-word transactions, the m-th at byte offset
\* offset + (m-1)*addr_step with the source unit at buf + (m-1)*addr_step.
C5_ProgramUnitCount ==
    (Returned("intel_prog_dev") /\ ret = INTEL_STATUS_READY) =>
        LET k == Len(ProgCmds)
        IN /\ CeilIs(op.a[3], addr_step, k)
           /\ Len(ProgWrites) = k
           /\ \A m \in 1..k :
                LET at == Add32(op.a[1], Lit((m - 1) * addr_step))
                IN /\ ProgWrites[m].a = at
                   /\ ProgWrites[m].d = mem_read(Add32(op.a[2], Lit((m - 1) * addr_step)))
                   /\ ProgCmds[m].a = Shr32(at, addr_shift)

\* the same for the byte counts whose alignment does not wrap
C5_ProgramUnitCountWithoutWrap ==
    (Returned("intel_prog_dev") /\ ret = INTEL_STATUS_READY /\ op.a[3][1] = 0) =>
        LET k == Len(ProgCmds)
        IN /\ CeilIs(op.a[3], addr_step, k)
           /\ Len(ProgWrites) = k
           /\ \A m \in 1..k :
                LET at == Add32(op.a[1], Lit((m - 1) * addr_step))
                IN /\ ProgWrites[m].a = at
                   /\ ProgWrites[m].d = mem_read(Add32(op.a[2], Lit((m - 1) * addr_step)))
                   /\ ProgCmds[m].a = Shr32(at, addr_shift)

Suffix(b, n) == SubSeq(b, Len(b) - n + 1, Len(b))
\* the word the innermost polling loop has read last
PolledWord(f) ==
    IF f.fn \in {"intel_lock_block", "intel_unlock_block"} THEN f.status ELSE f.data

\* what erase_block(b) puts on the bus up to its first polling read, and after it
EraseCommands(b) ==
    <<Cmd(b, INTEL_BLOCK_ERASE), Cmd(b, INTEL_CONFIRM), Delay, Rd(Shl32(b, addr_shift))>>
EraseCompletion(b) ==
    <<Cmd(b, INTEL_READ_STATUS), Rd(Shl32(b, addr_shift)),
      Cmd(Zero32, INTEL_CLEAR_STATUS), Cmd(b, INTEL_READ_ARRAY), Delay>>

\* C6: erase_block(b) issues the erase command and then the confirm byte at
\* command address b, polls byte address b << addr_shift, leaves the polling
\* loop only on a word with the ready mask set, and only then decodes the
\* status and resets block b.
C6_EraseBlockSequence ==
    /\ [](/\ Running("intel_blk_erase_dev", "poll") =>
               (Len(bus) >= 4 /\ Suffix(bus, 4) = EraseCommands(Top.blkaddr))
          /\ (Returned("intel_blk_erase_dev") /\ CountCmd(bus, INTEL_BLOCK_ERASE) > 0) =>
               /\ Len(bus) >= 9
               /\ Suffix(bus, 9) = EraseCommands(op.a[1]) \o EraseCompletion(op.a[1])
               /\ CountCmd(bus, INTEL_BLOCK_ERASE) = 1)
    /\ [][(Running("intel_blk_erase_dev", "poll") /\ bus' # bus) =>
              MaskSet(Top.data, INTEL_READY)]_vars

\* the scenario: block address 2 erased with addr_shift = 1, polled at byte address 4
C6_Witness ==
    /\ Returned("intel_blk_erase_dev")
    /\ op.a[1] = Lit(2)
    /\ addr_shift = 1
    /\ Suffix(bus, 9) = EraseCommands(Lit(2)) \o EraseCompletion(Lit(2))
    /\ bus[Len(bus) - 5] = Rd(Lit(4))

\* C7: for every block address b of the device geometry,
\* ADDR_TO_BLKADDR(BLKADDR_TO_ADDR(b)) = b in 32 bit unsigned arithmetic.
C7_AddressRoundTrip ==
    devinf # "NULL" =>
        \A b \in Range(BlockIterator) : ADDR_TO_BLKADDR(BLKADDR_TO_ADDR(b)) = b

\* a block in the upper half of the address space has been converted to its
\* byte address and read
C7_Witness ==
    /\ devinf # "NULL"
    /\ addr_shift = 2
    /\ \E n \in 1..Len(bus) :
         /\ bus[n].k = "rd"
         /\ bus[n].a[1] >= 32768
         /\ \E b \in Range(BlockIterator) : bus[n].a = BLKADDR_TO_ADDR(b)

\* the reads the request has put on the bus
Reads == SelectSeq(bus, LAMBDA e : e.k = "rd")
\* a step of a running operation that issues the read-status command
DecodeStep ==
    ~Idle /\ CountCmd(bus', INTEL_READ_STATUS) > CountCmd(bus, INTEL_READ_STATUS)
\* the read-status command that step issues
DecodeCmd ==
    SelectSeq(SubSeq(bus', Len(bus) + 1, Len(bus')),
              LAMBDA e : IsCmd(e, INTEL_READ_STATUS))[1]

\* C8: the status decode is performed only after a poll read of the same block
\* has observed the ready mask set, and an operation returns an error only
\* from such a decode (its own or the one of the operation it called).
C8_DecodeOnlyAfterReady ==
    [][/\ DecodeStep =>
            /\ Top.pc = "poll"
            /\ MaskSet(PolledWord(Top), INTEL_READY)
            /\ Len(Reads) > 0
            /\ Shr32(Reads[Len(Reads)].a, devinfo.addr_shift) = DecodeCmd.a
       /\ (~Idle /\ Len(stack') < Len(stack) /\ Top.fn \in ResultOps /\ ret' # 0) =>
            (DecodeStep \/ ret' = ret)]_vars

\* a program request that returned the error decoded after its poll
C8_Witness ==
    /\ Returned("intel_prog_dev")
    /\ ret = INTEL_STATUS_PROG_ERR
    /\ CountCmd(bus, INTEL_READ_STATUS) = 2

\* C9: a polling loop whose last read does not show the ready mask is not
\* left: the next step of the operation is another read of the loop, with no
\* command, no reset and no return.
C9_NoTimeout ==
    [][(~Idle /\ Top.pc = "poll" /\ ~MaskSet(PolledWord(Top), INTEL_READY)) =>
          /\ Len(stack') = Len(stack)
          /\ stack'[Len(stack)].fn = Top.fn
          /\ stack'[Len(stack)].pc = "poll"
          /\ SubSeq(stack', 1, Len(stack) - 1) = Pop
          /\ bus' = bus
          /\ ret' = ret
          /\ hist' = hist]_vars

\* the unlock of a whole-device erase polling a device that is not ready
C9_Witness ==
    /\ Len(stack) = 3
    /\ Top.fn = "intel_unlock_block"
    /\ Top.pc = "poll"
    /\ ~MaskSet(Top.status, INTEL_READY)

\* C10: the context (addr_step, addr_shift, the seven masks, the device-info
\* pointer) and the geometry change only in a step of the initializer.
C10_ContextWrittenOnlyByInit ==
    [][(ctx' # ctx \/ devinfo' # devinfo) =>
          (Idle /\ stack' = <<>> /\ op'.fn = "intel_init_dev_params")]_vars

\* a whole-device reset has returned and the context is the initializer's
C10_Witness ==
    /\ Returned("intel_rst_dev")
    /\ Len(bus) > 0
    /\ addr_step = devinfo.addr_step
    /\ addr_shift = devinfo.addr_shift
    /\ sr7flag = MaskOf(INTEL_READY)
    /\ sr1flag = MaskOf(INTEL_LOCKBIT_ERRORS)
    /\ devinf = "devinfo"

\* what intel_lock_block (confirm = INTEL_SET_LOCK_BIT) and intel_unlock_block
\* (confirm = INTEL_CLEAR_LOCK_BITS) put on the bus for block b
LockSequence(b, confirm) ==
    <<Cmd(b, INTEL_CHANGE_LOCK), Cmd(b, confirm), Delay, Rd(Shl32(b, addr_shift)),
      Delay, Cmd(b, INTEL_READ_STATUS), Rd(Shl32(b, addr_shift)),
      Cmd(Zero32, INTEL_CLEAR_STATUS), Cmd(b, INTEL_READ_ARRAY), Delay>>

\* the unlock made by the running erase_block has returned a non-Ready result
UnlockFailed ==
    /\ ~no_unlock
    /\ Len(hist) = 1
    /\ hist[1].fn = "intel_unlock_block"
    /\ hist[1].status # INTEL_STATUS_READY

\* C12: with unlock-before-erase enabled, an erase_block(b) whose unlock
\* returned a non-Ready result returns that result, and the bus carries the
\* unlock sequence of b and nothing else: no erase command, no confirm byte.
C12_EraseAbortsOnUnlockFailure ==
    (Returned("intel_blk_erase_dev") /\ UnlockFailed) =>
        /\ ret = hist[1].status
        /\ CountCmd(bus, INTEL_BLOCK_ERASE) = 0
        /\ bus = LockSequence(op.a[1], INTEL_CLEAR_LOCK_BITS)

\* erase_block of block 2 has returned the lock error of its unlock
C12_Witness ==
    /\ Returned("intel_blk_erase_dev")
    /\ UnlockFailed
    /\ op.a[1] = Lit(2)
    /\ ret = INTEL_STATUS_LOCK_ERR
    /\ Len(bus) = 10

\* C13: a program that returns an error ends with the failing unit: after the
\* data write of the last unit the bus carries the delay, the polling read,
\* the status decode and the reset of the block of that unit's offset, and
\* nothing more; every unit was written once, at ascending offsets.
C13_ProgramStopsAtFirstError ==
    (Returned("intel_prog_dev") /\ ret # INTEL_STATUS_READY) =>
        LET k == Len(ProgWrites)
        IN /\ k >= 1
           /\ Len(ProgCmds) = k
           /\ CountCmd(bus, INTEL_READ_STATUS) = k
           /\ ret \in SixKinds
           /\ \A m \in 1..k :
                ProgWrites[m].a = Add32(op.a[1], Lit((m - 1) * addr_step))
           /\ Len(bus) >= 8
           /\ LET at == ProgWrites[k].a
                  blk == Shr32(at, addr_shift)
              IN /\ bus[Len(bus) - 7] = ProgWrites[k]
                 /\ Suffix(bus, 7) =
                      <<Delay, Rd(at), Cmd(blk, INTEL_READ_STATUS), Rd(Shl32(blk, addr_shift)),
                        Cmd(Zero32, INTEL_CLEAR_STATUS), Cmd(blk, INTEL_READ_ARRAY), Delay>>

\* a program of two units has failed at its second unit
C13_Witness ==
    /\ Returned("intel_prog_dev")
    /\ ret = INTEL_STATUS_PROG_ERR
    /\ Len(ProgWrites) = 2
    /\ Le32(Lit(2 * addr_step + 1), op.a[3])

\* C14: whenever program(offset, buf, n) has returned Ready, the units written
\* cover the n bytes from offset on, each unit decoded once.
C14_ReadyOnlyAfterWholeRange ==
    (Returned("intel_prog_dev") /\ ret = INTEL_STATUS_READY) =>
        /\ Le32(op.a[3], Lit(Len(ProgWrites) * addr_step))
        /\ CountCmd(bus, INTEL_READ_STATUS) = Len(ProgWrites)
        /\ \A m \in 1..Len(ProgWrites) :
             ProgWrites[m].a = Add32(op.a[1], Lit((m - 1) * addr_step))

\* the same for the byte counts whose rounding up to addr_step does not wrap
\* around in 32 bits
C14_ReadyOnlyAfterWholeRangeWithoutWrap ==
    (Returned("intel_prog_dev") /\ ret = INTEL_STATUS_READY
       /\ Le32(op.a[3], AlignCount(op.a[3]))) =>
        /\ Le32(op.a[3], Lit(Len(ProgWrites) * addr_step))
        /\ CountCmd(bus, INTEL_READ_STATUS) = Len(ProgWrites)

\* C15: program starts with the reset of the block of the target offset;
\* every program-word command stands at command address offset >> addr_shift
\* and is followed by the data write at offset, the delay, the polling read at
\* offset and, once the polling loop is left, the status decode; the polling
\* loop is left only on a word with the ready mask set.
C15_ProgramOrder ==
    /\ []((op.fn = "intel_prog_dev" /\ ~Running("intel_prog_dev", "entry")) =>
            /\ Len(bus) >= 3
            /\ SubSeq(bus, 1, 3) =
                 <<Cmd(Zero32, INTEL_CLEAR_STATUS),
                   Cmd(Shr32(op.a[1], addr_shift), INTEL_READ_ARRAY), Delay>>
            /\ \A m \in 1..Len(ProgWrites) :
                 ProgWrites[m].a = Add32(op.a[1], Lit((m - 1) * addr_step))
            /\ \A n \in 1..Len(bus) :
                 IsCmd(bus[n], INTEL_PROGRAM_WORD) =>
                   /\ n > 3
                   /\ Len(bus) >= n + 3
                   /\ bus[n + 1].k = "wr"
                   /\ bus[n].a = Shr32(bus[n + 1].a, addr_shift)
                   /\ bus[n + 2] = Delay
                   /\ bus[n + 3] = Rd(bus[n + 1].a)
                   /\ Len(bus) > n + 3 =>
                        /\ Len(bus) >= n + 5
                        /\ bus[n + 4] = Cmd(Shr32(bus[n + 1].a, addr_shift), INTEL_READ_STATUS)
                        /\ bus[n + 5].k = "rd")
    /\ [][(Running("intel_prog_dev", "poll") /\ bus' # bus) =>
              MaskSet(Top.data, INTEL_READY)]_vars

\* two units programmed at byte offsets 65534 and 65536 of the 16 bit part
C15_Witness ==
    /\ Returned("intel_prog_dev")
    /\ ret = INTEL_STATUS_READY
    /\ addr_shift = 1
    /\ op.a[1] = Lit(65534)
    /\ Len(ProgWrites) = 2
    /\ bus[2] = Cmd(Lit(32767), INTEL_READ_ARRAY)
    /\ bus[4] = Cmd(Lit(32767), INTEL_PROGRAM_WORD)
    /\ bus[10] = Cmd(Lit(32768), INTEL_PROGRAM_WORD)

C18_LockUnlockSymmetric ==
    /\ [](/\ Returned("intel_lock_block") =>
               (bus = LockSequence(op.a[1], 1) /\ ret \in SixKinds)
          /\ Returned("intel_unlock_block") =>
               (bus = LockSequence(op.a[1], 208) /\ ret \in SixKinds))
    /\ [][((Running("intel_lock_block", "poll") \/ Running("intel_unlock_block", "poll"))
            /\ bus' # bus) => MaskSet(Top.status, INTEL_READY)]_vars

\* block 2 has been locked on the 16 bit part, polled at byte address 4
C18_Witness ==
    /\ Returned("intel_lock_block")
    /\ op.a[1] = Lit(2)
    /\ addr_shift = 1
    /\ bus[2] = Cmd(Lit(2), INTEL_SET_LOCK_BIT)
    /\ bus[4] = Rd(Lit(4))
    /\ Len(bus) = 10

\* j * x in 32 bit unsigned arithmetic
RECURSIVE Mul32(_, _)
Mul32(j, x) == IF j = 0 THEN Zero32 ELSE Add32(x, Mul32(j - 1, x))

\* the number of blocks in the regions before region i
RECURSIVE BlocksBefore(_)
BlocksBefore(i) ==
    IF i <= 1 THEN 0 ELSE devinfo.flgeo.region[i - 1].nblks + BlocksBefore(i - 1)

\* C19: reset_device() resets every block of the geometry once, in geometry
\* order, and nothing else: the n-th reset is that of block address
\* (region[i].offset + j*blksiz(i)) >> (byte-to-block shift), the number of
\* resets is the sum of the regions' block counts, and the geometry stays as
\* it was.
C19_ResetDeviceVisitsEveryBlock ==
    /\ [](Returned("intel_rst_dev") =>
            LET geo == devinfo.flgeo
            IN /\ Len(bus) = 3 * BlocksBefore(geo.tot_regions + 1)
               /\ \A i \in 1..geo.tot_regions :
                    \A j \in 0..(geo.region[i].nblks - 1) :
                       LET n == BlocksBefore(i) + j
                           blk == Shr32(Add32(geo.region[i].offset,
                                              Mul32(j, geo.region[i].blksiz)),
                                        BYTE_OFFSET_FACTOR(devinfo.part_mode))
                       IN SubSeq(bus, 3 * n + 1, 3 * n + 3) =
                            <<Cmd(Zero32, INTEL_CLEAR_STATUS),
                              Cmd(blk, INTEL_READ_ARRAY), Delay>>)
    /\ [][(op.fn = "intel_rst_dev" /\ ~Idle) => devinfo' = devinfo]_vars

\* the three blocks of the two-region geometry have been reset
C19_Witness ==
    /\ Returned("intel_rst_dev")
    /\ devinfo.flgeo.tot_regions = 2
    /\ Len(bus) = 9
    /\ bus[8] = Cmd(Lit(16384), INTEL_READ_ARRAY)

\* C20: reset_block(b) puts on the bus the clear-status command at command
\* address 0, whatever b is, then the read-array command at command address
\* b, then the delay, and nothing else; it returns no value.
C20_ResetBlockSequence ==
    /\ [](Returned("intel_rst_blk") =>
            bus = <<Cmd(Zero32, INTEL_CLEAR_STATUS),
                    Cmd(op.a[1], INTEL_READ_ARRAY), Delay>>)
    /\ [][(op'.fn = "intel_rst_blk" /\ bus' # bus) => (ret' = ret /\ stack' = <<>>)]_vars

\* block 2 has been reset: the clear-status went to address 0
C20_Witness ==
    /\ Returned("intel_rst_blk")
    /\ op.a[1] = Lit(2)
    /\ bus[1] = Cmd(Zero32, INTEL_CLEAR_STATUS)
    /\ bus[2] = Cmd(Lit(2), INTEL_READ_ARRAY)

\* C11: in the dispatch loop every processed host command is followed by the
\* callback, taken before the writer mailbox is cleared: behind the switch of
\* an iteration that fetched a host command the next step enters
\* xmd_callback with the writer mailbox as the command left it, STATUS_ERR
\* and the error code in param[0] included.
C11_CallbackAfterEveryCommand ==
    [][(sm.pc = "tail" /\ sm.cmd \in HostCommands \ {CMD_NONE}) =>
          (sm'.pc = "callback" /\ sm'.sndmbox = sm.sndmbox)]_vars

\* the same for the commands that do not end in STATUS_ERR
C11_CallbackAfterEverySuccess ==
    [][(sm.pc = "tail" /\ sm.cmd \in HostCommands \ {CMD_NONE}
          /\ sm.sndmbox.status # STATUS_ERR) =>
          (sm'.pc = "callback" /\ sm'.sndmbox = sm.sndmbox)]_vars

\* the dispatch loop stands behind the switch of an iteration that fetched c:
\* the writer status is the one the callback point will show
AtCallbackPoint(c) == sm.pc \in {"tail", "callback"} /\ sm.cmd = c

\* a byte of the nbytes bytes read back differs from the byte written
VerifyDiffers ==
    \E i \in 1..sm.rcvmbox.param[2] : sm.membuf[i] # sm.readbuf[i]

\* C21: behind the CMD_PROG_DEV case, when XFlash_Write and XFlash_Read were
\* both taken as successful and a byte read back differs from the byte
\* written, the writer status is STATUS_ERR; it is STATUS_SUCCESS only when
\* no byte differs.
C21_VerifyFailureReported ==
    (sm.pc = "tail" /\ sm.cmd = CMD_PROG_DEV /\ sm.ret = 0) =>
        /\ VerifyDiffers => sm.sndmbox.status = STATUS_ERR
        /\ sm.sndmbox.status = STATUS_SUCCESS => ~VerifyDiffers

\* C22: behind the CMD_EXIT case the writer status is STATUS_EXIT.
C22_ExitAcknowledged ==
    AtCallbackPoint(CMD_EXIT) => sm.sndmbox.status = STATUS_EXIT

\* C23: behind the case of CMD_ERASE_DEV or CMD_BLK_ERASE_DEV, for an Intel
\* command set the first call was XFlash_Unlock; if it returned non-zero it
\* was the only call, and the writer status is STATUS_ERR with that result in
\* param[0]; if it returned zero XFlash_Erase followed. For any other command
\* set XFlash_Erase was the only call.
C23_UnlockBeforeErase ==
    (sm.pc = "tail" /\ sm.cmd \in {CMD_ERASE_DEV, CMD_BLK_ERASE_DEV}) =>
        IF IsIntel(sm.CommandSet)
        THEN /\ Len(sm.calls) >= 1
             /\ sm.calls[1].fn = "XFlash_Unlock"
             /\ IF sm.calls[1].r # 0
                THEN /\ Len(sm.calls) = 1
                     /\ sm.sndmbox.status = STATUS_ERR
                     /\ sm.sndmbox.param0 = sm.calls[1].r
                ELSE /\ Len(sm.calls) = 2
                     /\ sm.calls[2].fn = "XFlash_Erase"
        ELSE /\ Len(sm.calls) = 1
             /\ sm.calls[1].fn = "XFlash_Erase"

\* the same with the result of XFlash_Unlock taken as the loop stores it, in
\* the uint8_t ret
C23_UnlockBeforeEraseAsStored ==
    (sm.pc = "tail" /\ sm.cmd \in {CMD_ERASE_DEV, CMD_BLK_ERASE_DEV}) =>
        IF IsIntel(sm.CommandSet)
        THEN /\ Len(sm.calls) >= 1
             /\ sm.calls[1].fn = "XFlash_Unlock"
             /\ IF U8(sm.calls[1].r) # 0
                THEN /\ Len(sm.calls) = 1
                     /\ sm.sndmbox.status = STATUS_ERR
                     /\ sm.sndmbox.param0 = U8(sm.calls[1].r)
                ELSE /\ Len(sm.calls) = 2
                     /\ sm.calls[2].fn = "XFlash_Erase"
        ELSE /\ Len(sm.calls) = 1
             /\ sm.calls[1].fn = "XFlash_Erase"

\* C24: each host command is dispatched at most once: the loop's tail leaves
\* the host command slot CMD_NONE, every iteration starts with the writer
\* command slot CMD_NONE and the writer status STATUS_IDLE, a host command
\* found at the start of an iteration is one posted since the last dispatch,
\* and between the host's post and the dispatch the loop does not write the
\* host mailbox.
C24_EachCommandOnce ==
    /\ [](/\ sm.executed <= sm.posted
          /\ sm.pc = "tail" => sm.rcvmbox.cmd = sm.cmd
          /\ sm.pc = "fetch" =>
               /\ sm.sndmbox.cmd = CMD_NONE
               /\ sm.sndmbox.status = STATUS_IDLE
               /\ sm.rcvmbox.cmd \in HostCommands \ {CMD_NONE} => sm.executed < sm.posted)
    /\ [][/\ sm.pc = "tail" => sm'.rcvmbox.cmd = CMD_NONE
          /\ sm'.rcvmbox # sm.rcvmbox => (sm.pc = "tail" \/ sm'.posted = sm.posted + 1)]_vars

\* a second command, posted at the callback of the first, waits for its dispatch
C24_Witness ==
    /\ sm.pc = "fetch"
    /\ sm.posted = 2
    /\ sm.executed = 1
    /\ sm.rcvmbox.cmd = CMD_PROG_DEV

\* C25: in program the byte count rounded up to a multiple of addr_step is
\* not below the byte count asked for and is a multiple of addr_step, and a
\* program of a non-zero byte count that returns Ready has written a unit.
C25_RoundingNeverWraps ==
    /\ (Running("intel_prog_dev", "loop") /\ Len(ProgWrites) = 0) =>
           /\ Le32(op.a[3], Top.nbytes)
           /\ Mod32(Top.nbytes, addr_step) = 0
    /\ (Returned("intel_prog_dev") /\ ret = INTEL_STATUS_READY /\ op.a[3] # Zero32) =>
           Len(ProgWrites) > 0

\* C26: on a bus of more than one interleaved chip, a status word decoded to
\* Ready has the erase-error, program-error, voltage-error and lockbit-error
\* bit clear in every lane.
C26_AnyLaneErrorDetected ==
    (op.fn = "intel_status_check" /\ devinfo.interleave > 1
       /\ ret = INTEL_STATUS_READY) =>
        \A c \in {INTEL_ERASE_ERRORS, INTEL_PROGRAM_ERRORS,
                  INTEL_VOLTAGE_ERRORS, INTEL_LOCKBIT_ERRORS} :
            op.a[2] \cap MaskOf(c) = {}

\* C27: with a device that reports ready at last, every operation that is
\* running returns; a program has then written at most ceil(n/addr_step)
\* units, a whole-device reset has made one block step for every block of the
\* geometry and a whole-device erase at most that many.
C27_EveryOperationTerminates ==
    /\ (~Idle) ~> Idle
    /\ [](/\ Returned("intel_prog_dev") =>
               LET k == Len(ProgWrites)
               IN k = 0 \/ ~Le32(op.a[3], Lit((k - 1) * addr_step))
          /\ Returned("intel_rst_dev") => Len(bus) = 3 * Len(BlockIterator)
          /\ Returned("intel_erase_dev") => Len(BlockErases) <= Len(BlockIterator))

\* a whole-device erase of the three blocks of the two-region geometry has
\* returned Ready
C27_Witness ==
    /\ Returned("intel_erase_dev")
    /\ ret = INTEL_STATUS_READY
    /\ devinfo.flgeo.tot_regions = 2
    /\ Len(BlockErases) = 3
====
